---- MODULE Spec2Model ----
\* A model of geekible-ltd/response-utils: the ResponseError value and its
\* factories, the gin response emitters and CalculatePagination.
\*
\* One request handler at a time is modelled.  The handler owns a gin.Context
\* (ctx: the calls made on it so far), the ResponseError values it has
\* allocated (heap: a pointer is an index into it, 0 is the nil pointer) and
\* the calls of the library it has made so far with their arguments and
\* results (trace).  A panic unwinds the handler: nothing but the next request
\* follows it.
EXTENDS Integers, Sequences, FiniteSets, TLC

VARIABLES heap, ctx, trace

vars == <<heap, ctx, trace>>

-----------------------------------------------------------------------------
\* Bounds of the model.

\* Library calls one handler makes.
MaxCalls == 4
\* Calls on the gin.Context one handler makes.
MaxWrites == 2
\* CalculatePagination inputs: page in -1..MaxPage, pageSize in -1..MaxPageSize,
\* total in -MaxNegTotal..MaxTotal.
MaxPage == 2
MaxPageSize == 21
MaxTotal == 100
MaxNegTotal == 21

\* Strings handlers pass as messages, resources, fields, headers, versions.
Msgs == {"", "User"}
\* Texts of the non-ResponseError errors (errors.New(text)).
ErrTexts == {"", "boom"}
\* Keys and values handlers pass to WithDetails.
Keys == {"a", "error"}
Vals == {"v1", "boom"}
\* Codes, messages and status codes handlers give their own errors.
CustomCodes == {"SUBSCRIPTION_EXPIRED"}
CustomMsgs == {"Your subscription has expired"}
CustomStatuses == {-1, 200, 409}

-----------------------------------------------------------------------------
\* net/http status constants used by the library.

StatusOK == 200
StatusCreated == 201
StatusAccepted == 202
StatusNoContent == 204
StatusBadRequest == 400
StatusUnauthorized == 401
StatusForbidden == 403
StatusNotFound == 404
StatusConflict == 409
StatusInternalServerError == 500

\* The page size CalculatePagination falls back to.
DefaultPageSize == 20

\* Error codes.
ErrCodeBadRequest == "BAD_REQUEST"
ErrCodeUnauthorized == "UNAUTHORIZED"
ErrCodeForbidden == "FORBIDDEN"
ErrCodeNotFound == "NOT_FOUND"
ErrCodeConflict == "CONFLICT"
ErrCodeValidation == "VALIDATION_ERROR"
ErrCodeInternalServer == "INTERNAL_SERVER_ERROR"
ErrCodeDatabase == "DATABASE_ERROR"
ErrCodeInvalidInput == "INVALID_INPUT"
ErrCodeMissingHeader == "MISSING_HEADER"
ErrCodeInvalidUUID == "INVALID_UUID"
ErrCodeDuplicateEntry == "DUPLICATE_ENTRY"
ErrCodeForeignKeyViolation == "FOREIGN_KEY_VIOLATION"
ErrUnauthorizedError == "UNAUTHORIZED_ERROR"

-----------------------------------------------------------------------------
\* Go integer arithmetic: / truncates toward zero and % takes the sign of the
\* dividend.  (No overflow can occur in CalculatePagination: the divisor is
\* at least 1 and the quotient is incremented only when it is smaller in
\* magnitude than the dividend.)

Abs(x) == IF x < 0 THEN -x ELSE x

GoDiv(a, b) ==
    IF (a < 0) = (b < 0) THEN Abs(a) \div Abs(b) ELSE -(Abs(a) \div Abs(b))

GoMod(a, b) == a - b * GoDiv(a, b)

\* The Pagination struct.
Pagination(page, pageSize, total, totalPages) ==
    [Page |-> page, PageSize |-> pageSize, Total |-> total,
     TotalPages |-> totalPages]

\* Mutant: the remainder never adds a page.
CalculatePagination_NoRoundUp(page, pageSize, total) ==
    LET p == IF page < 1 THEN 1 ELSE page
        ps == IF pageSize < 1 THEN DefaultPageSize ELSE pageSize
    IN  Pagination(p, ps, total, GoDiv(total, ps))

\* Mutant: page 0 passes the clamp (page < 0 for page < 1).
CalculatePagination_PageZero(page, pageSize, total) ==
    LET p == IF page < 0 THEN 1 ELSE page
        ps == IF pageSize < 1 THEN DefaultPageSize ELSE pageSize
        totalPages == GoDiv(total, ps)
    IN  Pagination(p, ps, total,
                   IF GoMod(total, ps) # 0 THEN totalPages + 1 ELSE totalPages)

CalculatePagination(page, pageSize, total) ==
    LET p == IF page < 1 THEN 1 ELSE page
        ps == IF pageSize < 1 THEN DefaultPageSize ELSE pageSize
        totalPages == GoDiv(total, ps)
    IN  Pagination(p, ps, total,
                   IF GoMod(total, ps) # 0 THEN totalPages + 1 ELSE totalPages)

-----------------------------------------------------------------------------
\* Values.

\* interface{} values: nil, a scalar, a sequence.
NilValue == [t |-> "nil"]
Scalar(s) == [t |-> "scalar", v |-> s]
List(s) == [t |-> "list", v |-> s]
MapValue(m) == [t |-> "map", v |-> m]
PaginationPtr(p) == [t |-> "Pagination", v |-> p]

\* map[string]interface{}: nil (never made) or a finite function.
NilMap == [nil |-> TRUE, kv |-> <<>>]
MakeMap == [nil |-> FALSE, kv |-> <<>>]
MapOf(f) == [nil |-> FALSE, kv |-> f]

\* m[key] = value on a map that was made.
MapSet(m, key, value) ==
    MapOf([k \in (DOMAIN m.kv) \cup {key} |->
              IF k = key THEN value ELSE m.kv[k]])

\* error values: the nil interface, an error of another type carrying a
\* text, a *ResponseError (ref 0: the nil pointer).
NilError == [kind |-> "nil"]
PlainError(text) == [kind |-> "plain", msg |-> text]
ResponseErrorPtr(r) == [kind |-> "ResponseError", ref |-> r]
NilRef == 0

\* The result of a call: it returned nothing, a pointer, a Pagination, or it
\* panicked.
Void == [t |-> "void"]
Panic == [t |-> "panic"]
Ref(r) == [t |-> "ref", v |-> r]

\* The ResponseError struct.
ResponseError(code, message, statusCode, details) ==
    [Code |-> code, Message |-> message, StatusCode |-> statusCode,
     Details |-> details]


\* The Response and ListResponse structs.
Response(success, data, error, message) ==
    [Success |-> success, Data |-> data, Error |-> error, Message |-> message]

ListResponse(success, data, pagination) ==
    [Success |-> success, Data |-> data, Pagination |-> pagination]

\* (*ResponseError).Error() and the Error() of the other errors.
ErrorText(h, err) ==
    IF err.kind = "plain" THEN err.msg
    ELSE "[" \o h[err.ref].Code \o "] " \o h[err.ref].Message

\* err.Error() panics on the nil interface and on a nil *ResponseError.
ErrorTextPanics(err) ==
    \/ err.kind = "nil"
    \/ err.kind = "ResponseError" /\ err.ref = NilRef

-----------------------------------------------------------------------------
\* The gin.Context: c.JSON(code, obj) and c.Status(code), kept as the
\* sequence of the calls made on the context.

JSON(c, code, obj) == Append(c, [call |-> "JSON", code |-> code, obj |-> obj])

Status(c, code) == Append(c, [call |-> "Status", code |-> code])

-----------------------------------------------------------------------------
\* Error construction.  Each operation takes the heap and gives the heap
\* after it and what it returns.

NewResponseError(h, code, message, statusCode) ==
    [heap |-> Append(h, ResponseError(code, message, statusCode, MakeMap)),
     ret |-> Ref(Len(h) + 1)]

\* A handler's own &ResponseError{Code: ..., Message: ..., StatusCode: ...}:
\* the Details map is never made.
Literal(h, code, message, statusCode) ==
    [heap |-> Append(h, ResponseError(code, message, statusCode, NilMap)),
     ret |-> Ref(Len(h) + 1)]

\* Mutant: a key that is there already keeps its value.
WithDetails_KeepFirst(h, e, key, value) ==
    IF e = NilRef \/ h[e].Details.nil
    THEN [heap |-> h, ret |-> Panic]
    ELSE [heap |-> IF key \in DOMAIN h[e].Details.kv THEN h
                   ELSE [h EXCEPT ![e].Details = MapSet(@, key, value)],
          ret |-> Ref(e)]

\* e.Details[key] = value; return e.  Writing to a nil map panics, and so
\* does reading Details through a nil receiver.
WithDetails(h, e, key, value) ==
    IF e = NilRef \/ h[e].Details.nil
    THEN [heap |-> h, ret |-> Panic]
    ELSE [heap |-> [h EXCEPT ![e].Details = MapSet(@, key, value)],
          ret |-> Ref(e)]

BadRequest(h, message) ==
    NewResponseError(h, ErrCodeBadRequest, message, StatusBadRequest)

Unauthorized(h, message) ==
    NewResponseError(h, ErrCodeUnauthorized, message, StatusUnauthorized)

Forbidden(h, message) ==
    NewResponseError(h, ErrCodeForbidden, message, StatusForbidden)

NotFound(h, resource) ==
    NewResponseError(h, ErrCodeNotFound, resource \o " not found",
                     StatusNotFound)

Conflict(h, message) ==
    NewResponseError(h, ErrCodeConflict, message, StatusConflict)

ValidationError(h, message) ==
    NewResponseError(h, ErrCodeValidation, message, StatusBadRequest)

InternalServerError(h, message) ==
    NewResponseError(h, ErrCodeInternalServer, message,
                     StatusInternalServerError)

\* NewResponseError(...).WithDetails("error", err.Error()): the argument
\* err.Error() is evaluated after the receiver and panics on a nil err.
DatabaseError(h, err) ==
    LET made == NewResponseError(h, ErrCodeDatabase,
                                 "Database operation failed",
                                 StatusInternalServerError)
    IN  IF ErrorTextPanics(err)
        THEN [heap |-> h, ret |-> Panic]
        ELSE WithDetails(made.heap, made.ret.v, "error", ErrorText(h, err))

InvalidInput(h, field, reason) ==
    NewResponseError(h, ErrCodeInvalidInput,
                     "Invalid input for field '" \o field \o "': " \o reason,
                     StatusBadRequest)

MissingHeader(h, header) ==
    NewResponseError(h, ErrCodeMissingHeader,
                     "Missing required header: " \o header, StatusBadRequest)

InvalidUUID(h, field) ==
    NewResponseError(h, ErrCodeInvalidUUID,
                     "Invalid UUID format for field '" \o field \o "'",
                     StatusBadRequest)

DuplicateEntry(h, resource) ==
    NewResponseError(h, ErrCodeDuplicateEntry, resource \o " already exists",
                     StatusConflict)

ForeignKeyViolation(h, message) ==
    NewResponseError(h, ErrCodeForeignKeyViolation, message, StatusBadRequest)

\* Mutant: the factory uses the constant named after it, ErrUnauthorizedError.
UnauthorizedError_OwnCode(h, message) ==
    NewResponseError(h, ErrUnauthorizedError, message, StatusUnauthorized)

UnauthorizedError(h, message) ==
    NewResponseError(h, ErrCodeUnauthorized, message, StatusUnauthorized)

VersionExistsError(h, versionNumber) ==
    NewResponseError(h, ErrCodeConflict,
                     "Version " \o versionNumber \o " already exists",
                     StatusConflict)

-----------------------------------------------------------------------------
\* Emitters.  Each takes the context and gives the context after it.

SuccessResponse(c, statusCode, data, message) ==
    [ctx |-> JSON(c, statusCode, Response(TRUE, data, NilValue, message)),
     ret |-> Void]

CreatedResponse(c, data, message) ==
    SuccessResponse(c, StatusCreated, data, message)

\* Mutant: the status of the function it was copied from.
UpdatedResponse_AsCreated(c, data, message) ==
    SuccessResponse(c, StatusCreated, data, message)

UpdatedResponse(c, data, message) ==
    SuccessResponse(c, StatusAccepted, data, message)

OKResponse(c, data, message) ==
    SuccessResponse(c, StatusOK, data, message)

NoContentResponse(c) ==
    [ctx |-> Status(c, StatusNoContent), ret |-> Void]

ListResponseWithPagination(c, data, pagination) ==
    [ctx |-> JSON(c, StatusOK, ListResponse(TRUE, data, pagination)),
     ret |-> Void]

\* The error object of a response, as ErrorResponse builds it.
ErrorMap(code, message, details) ==
    MapValue([code |-> code, message |-> message, details |-> details])

\* Mutant: the error object is an ErrorDetail struct, whose details field is
\* tagged omitempty, so an empty Details leaves no "details" key.
ErrorResponse_OmitEmpty(h, c, err) ==
    IF err.kind = "ResponseError"
    THEN IF err.ref = NilRef
         THEN [heap |-> h, ctx |-> c, ret |-> Panic]
         ELSE [heap |-> h,
               ctx |-> JSON(c, h[err.ref].StatusCode,
                            Response(FALSE, NilValue,
                                     IF DOMAIN h[err.ref].Details.kv = {}
                                     THEN MapValue([code |-> h[err.ref].Code,
                                                    message |-> h[err.ref].Message])
                                     ELSE ErrorMap(h[err.ref].Code,
                                                   h[err.ref].Message,
                                                   h[err.ref].Details),
                                     "")),
               ret |-> Void]
    ELSE IF ErrorTextPanics(err)
         THEN [heap |-> h, ctx |-> c, ret |-> Panic]
         ELSE [heap |-> h,
               ctx |-> JSON(c, StatusInternalServerError,
                            Response(FALSE, NilValue,
                                     ErrorMap(ErrCodeInternalServer,
                                              "An unexpected error occurred",
                                              MapOf([error |-> ErrorText(h, err)])),
                                     "")),
               ret |-> Void]

\* Mutant: the fallback reports the error's own text as the message and adds
\* no details.
ErrorResponse_LeakText(h, c, err) ==
    IF err.kind = "ResponseError"
    THEN IF err.ref = NilRef
         THEN [heap |-> h, ctx |-> c, ret |-> Panic]
         ELSE [heap |-> h,
               ctx |-> JSON(c, h[err.ref].StatusCode,
                            Response(FALSE, NilValue,
                                     ErrorMap(h[err.ref].Code,
                                              h[err.ref].Message,
                                              h[err.ref].Details),
                                     "")),
               ret |-> Void]
    ELSE IF ErrorTextPanics(err)
         THEN [heap |-> h, ctx |-> c, ret |-> Panic]
         ELSE [heap |-> h,
               ctx |-> JSON(c, StatusInternalServerError,
                            Response(FALSE, NilValue,
                                     ErrorMap(ErrCodeInternalServer,
                                              ErrorText(h, err), MakeMap),
                                     "")),
               ret |-> Void]

\* Mutant: the fallback answers with http.StatusOK.
ErrorResponse_FallbackOK(h, c, err) ==
    IF err.kind = "ResponseError"
    THEN IF err.ref = NilRef
         THEN [heap |-> h, ctx |-> c, ret |-> Panic]
         ELSE [heap |-> h,
               ctx |-> JSON(c, h[err.ref].StatusCode,
                            Response(FALSE, NilValue,
                                     ErrorMap(h[err.ref].Code,
                                              h[err.ref].Message,
                                              h[err.ref].Details),
                                     "")),
               ret |-> Void]
    ELSE IF ErrorTextPanics(err)
         THEN [heap |-> h, ctx |-> c, ret |-> Panic]
         ELSE [heap |-> h,
               ctx |-> JSON(c, StatusOK,
                            Response(FALSE, NilValue,
                                     ErrorMap(ErrCodeInternalServer,
                                              "An unexpected error occurred",
                                              MapOf([error |-> ErrorText(h, err)])),
                                     "")),
               ret |-> Void]

\* Mutant: a Details map that was never made is made in place before the
\* value is written, so that the response carries {} and not null.
ErrorResponse_FillDetails(h, c, err) ==
    IF err.kind = "ResponseError"
    THEN IF err.ref = NilRef
         THEN [heap |-> h, ctx |-> c, ret |-> Panic]
         ELSE LET d == IF h[err.ref].Details.nil THEN MakeMap
                       ELSE h[err.ref].Details
              IN  [heap |-> [h EXCEPT ![err.ref].Details = d],
                   ctx |-> JSON(c, h[err.ref].StatusCode,
                                Response(FALSE, NilValue,
                                         ErrorMap(h[err.ref].Code,
                                                  h[err.ref].Message, d),
                                         "")),
                   ret |-> Void]
    ELSE IF ErrorTextPanics(err)
         THEN [heap |-> h, ctx |-> c, ret |-> Panic]
         ELSE [heap |-> h,
               ctx |-> JSON(c, StatusInternalServerError,
                            Response(FALSE, NilValue,
                                     ErrorMap(ErrCodeInternalServer,
                                              "An unexpected error occurred",
                                              MapOf([error |-> ErrorText(h, err)])),
                                     "")),
               ret |-> Void]

\* The type assertion err.(*ResponseError) succeeds on a nil *ResponseError
\* too, and reading appErr.StatusCode then panics; on the nil interface it
\* fails and err.Error() panics.  Both happen while the arguments of c.JSON
\* are evaluated, before anything is written.
ErrorResponse(h, c, err) ==
    IF err.kind = "ResponseError"
    THEN IF err.ref = NilRef
         THEN [heap |-> h, ctx |-> c, ret |-> Panic]
         ELSE [heap |-> h,
               ctx |-> JSON(c, h[err.ref].StatusCode,
                            Response(FALSE, NilValue,
                                     ErrorMap(h[err.ref].Code,
                                              h[err.ref].Message,
                                              h[err.ref].Details),
                                     "")),
               ret |-> Void]
    ELSE IF ErrorTextPanics(err)
         THEN [heap |-> h, ctx |-> c, ret |-> Panic]
         ELSE [heap |-> h,
               ctx |-> JSON(c, StatusInternalServerError,
                            Response(FALSE, NilValue,
                                     ErrorMap(ErrCodeInternalServer,
                                              "An unexpected error occurred",
                                              MapOf([error |-> ErrorText(h, err)])),
                                     "")),
               ret |-> Void]

-----------------------------------------------------------------------------
\* The handler.

Init ==
    /\ heap = <<>>
    /\ ctx = <<>>
    /\ trace = <<>>

Call(op, args, ret) == [op |-> op, args |-> args, ret |-> ret]

Last == trace[Len(trace)]

\* The handler is still running: it has not panicked and may call again.
Running == IF trace = <<>> THEN TRUE ELSE Last.ret.t # "panic"

CanCall == Running /\ Len(trace) < MaxCalls

\* The handler's first call.
First == trace = <<>>

\* A call that works on the heap alone.
OnHeap(op, args, out) ==
    /\ heap' = out.heap
    /\ trace' = Append(trace, Call(op, args, out.ret))
    /\ UNCHANGED ctx

\* A call that works on the context alone.
OnCtx(op, args, out) ==
    /\ ctx' = out.ctx
    /\ trace' = Append(trace, Call(op, args, out.ret))
    /\ UNCHANGED heap

\* The next request: a new context, and the last handler's values are gone.
NewRequest ==
    /\ trace # <<>>
    /\ heap' = <<>>
    /\ ctx' = <<>>
    /\ trace' = <<>>

\* The pointers a handler holds, and the nil pointer.
Refs == 0..Len(heap)

\* The errors a handler can pass.
Errors ==
    {NilError} \cup {PlainError(t) : t \in ErrTexts}
               \cup {ResponseErrorPtr(r) : r \in Refs}


-----------------------------------------------------------------------------
\* The calls a handler makes.  A named factory is the handler's first call
\* (the handlers of the README build one named error and emit it); the
\* generic constructor, WithDetails and the emitters are called at any point.

DoNewResponseError ==
    /\ CanCall
    /\ \E code \in CustomCodes, m \in CustomMsgs, sc \in CustomStatuses :
          OnHeap("NewResponseError", <<code, m, sc>>,
                 NewResponseError(heap, code, m, sc))

DoLiteral ==
    /\ CanCall
    /\ \E code \in CustomCodes, m \in CustomMsgs, sc \in CustomStatuses :
          OnHeap("Literal", <<code, m, sc>>, Literal(heap, code, m, sc))

DoWithDetails ==
    /\ CanCall
    /\ \E e \in Refs, k \in Keys, v \in Vals :
          OnHeap("WithDetails", <<e, k, v>>, WithDetails(heap, e, k, v))

DoBadRequest ==
    /\ CanCall /\ First
    /\ \E m \in Msgs : OnHeap("BadRequest", <<m>>, BadRequest(heap, m))

DoUnauthorized ==
    /\ CanCall /\ First
    /\ \E m \in Msgs : OnHeap("Unauthorized", <<m>>, Unauthorized(heap, m))

DoForbidden ==
    /\ CanCall /\ First
    /\ \E m \in Msgs : OnHeap("Forbidden", <<m>>, Forbidden(heap, m))

DoNotFound ==
    /\ CanCall /\ First
    /\ \E m \in Msgs : OnHeap("NotFound", <<m>>, NotFound(heap, m))

DoConflict ==
    /\ CanCall /\ First
    /\ \E m \in Msgs : OnHeap("Conflict", <<m>>, Conflict(heap, m))

DoValidationError ==
    /\ CanCall /\ First
    /\ \E m \in Msgs : OnHeap("ValidationError", <<m>>, ValidationError(heap, m))

DoInternalServerError ==
    /\ CanCall /\ First
    /\ \E m \in Msgs : OnHeap("InternalServerError", <<m>>, InternalServerError(heap, m))

DoMissingHeader ==
    /\ CanCall /\ First
    /\ \E m \in Msgs : OnHeap("MissingHeader", <<m>>, MissingHeader(heap, m))

DoInvalidUUID ==
    /\ CanCall /\ First
    /\ \E m \in Msgs : OnHeap("InvalidUUID", <<m>>, InvalidUUID(heap, m))

DoDuplicateEntry ==
    /\ CanCall /\ First
    /\ \E m \in Msgs : OnHeap("DuplicateEntry", <<m>>, DuplicateEntry(heap, m))

DoForeignKeyViolation ==
    /\ CanCall /\ First
    /\ \E m \in Msgs : OnHeap("ForeignKeyViolation", <<m>>, ForeignKeyViolation(heap, m))

DoUnauthorizedError ==
    /\ CanCall /\ First
    /\ \E m \in Msgs : OnHeap("UnauthorizedError", <<m>>, UnauthorizedError(heap, m))

DoVersionExistsError ==
    /\ CanCall /\ First
    /\ \E m \in Msgs : OnHeap("VersionExistsError", <<m>>, VersionExistsError(heap, m))

DoInvalidInput ==
    /\ CanCall /\ First
    /\ \E f \in Msgs, r \in Msgs :
          OnHeap("InvalidInput", <<f, r>>, InvalidInput(heap, f, r))

DoDatabaseError ==
    /\ CanCall /\ First
    /\ \E err \in Errors :
          OnHeap("DatabaseError", <<err>>, DatabaseError(heap, err))

DoErrorResponse ==
    /\ CanCall
    /\ Len(ctx) < MaxWrites
    /\ \E err \in Errors :
          LET out == ErrorResponse(heap, ctx, err)
          IN  /\ heap' = out.heap
              /\ ctx' = out.ctx
              /\ trace' = Append(trace, Call("ErrorResponse", <<err>>, out.ret))

\* What handlers pass as data, as messages and as status codes.
Datas == {NilValue, Scalar("d1"), List(<<>>)}
SuccessStatuses == {StatusOK, 418}
Paginations ==
    {NilValue, PaginationPtr(CalculatePagination(1, 20, 100)),
     PaginationPtr(Pagination(1, 10, 250, 25))}

DoSuccessResponse ==
    /\ CanCall
    /\ Len(ctx) < MaxWrites
    /\ \E sc \in SuccessStatuses, d \in Datas, m \in Msgs :
          OnCtx("SuccessResponse", <<sc, d, m>>,
                SuccessResponse(ctx, sc, d, m))

DoOKResponse ==
    /\ CanCall
    /\ Len(ctx) < MaxWrites
    /\ \E d \in Datas, m \in Msgs :
          OnCtx("OKResponse", <<d, m>>, OKResponse(ctx, d, m))

DoCreatedResponse ==
    /\ CanCall
    /\ Len(ctx) < MaxWrites
    /\ \E d \in Datas, m \in Msgs :
          OnCtx("CreatedResponse", <<d, m>>, CreatedResponse(ctx, d, m))

DoUpdatedResponse ==
    /\ CanCall
    /\ Len(ctx) < MaxWrites
    /\ \E d \in Datas, m \in Msgs :
          OnCtx("UpdatedResponse", <<d, m>>, UpdatedResponse(ctx, d, m))

DoNoContentResponse ==
    /\ CanCall
    /\ Len(ctx) < MaxWrites
    /\ OnCtx("NoContentResponse", <<>>, NoContentResponse(ctx))

DoListResponseWithPagination ==
    /\ CanCall
    /\ Len(ctx) < MaxWrites
    /\ \E d \in Datas, p \in Paginations :
          OnCtx("ListResponseWithPagination", <<d, p>>,
                ListResponseWithPagination(ctx, d, p))

DoCalculatePagination ==
    /\ CanCall /\ First
    /\ \E page \in -1..MaxPage, pageSize \in -1..MaxPageSize,
          total \in -MaxNegTotal..MaxTotal :
          /\ trace' = Append(trace,
                 Call("CalculatePagination", <<page, pageSize, total>>,
                      PaginationPtr(CalculatePagination(page, pageSize, total))))
          /\ UNCHANGED <<heap, ctx>>

-----------------------------------------------------------------------------
\* Specifications.

\* The life of error values: built by the generic constructor, a literal or
\* a named factory, extended by WithDetails, emitted by ErrorResponse.
Next ==
    \/ NewRequest
    \/ DoNewResponseError
    \/ DoLiteral
    \/ DoNotFound
    \/ DoDatabaseError
    \/ DoWithDetails
    \/ DoErrorResponse

Spec == Init /\ [][Next]_vars

\* Every factory, and the emission of what it made.
NextFactory ==
    \/ NewRequest
    \/ DoNewResponseError
    \/ DoBadRequest
    \/ DoUnauthorized
    \/ DoForbidden
    \/ DoNotFound
    \/ DoConflict
    \/ DoValidationError
    \/ DoInternalServerError
    \/ DoDatabaseError
    \/ DoInvalidInput
    \/ DoMissingHeader
    \/ DoInvalidUUID
    \/ DoDuplicateEntry
    \/ DoForeignKeyViolation
    \/ DoUnauthorizedError
    \/ DoVersionExistsError
    \/ DoErrorResponse

SpecFactory == Init /\ [][NextFactory]_vars

\* The emitters of successful responses.
NextEmit ==
    \/ NewRequest
    \/ DoSuccessResponse
    \/ DoOKResponse
    \/ DoCreatedResponse
    \/ DoUpdatedResponse
    \/ DoNoContentResponse
    \/ DoListResponseWithPagination

SpecEmit == Init /\ [][NextEmit]_vars

\* CalculatePagination on every input of the bounds.
NextPage ==
    \/ NewRequest
    \/ DoCalculatePagination

SpecPage == Init /\ [][NextPage]_vars


-----------------------------------------------------------------------------
\* Properties.

\* The last call was op and it returned.
Returned(op) ==
    /\ trace # <<>>
    /\ Last.op = op
    /\ Last.ret.t # "panic"

\* C1: for pageSize > 0 and total >= 0, total_pages is the ceiling of
\* total / pageSize: the least n >= 0 with n * pageSize >= total.
C1_TotalPagesIsCeiling ==
    Returned("CalculatePagination") =>
        LET pageSize == Last.args[2]
            total == Last.args[3]
            n == Last.ret.v.TotalPages
        IN  (pageSize > 0 /\ total >= 0) =>
                /\ n >= 0
                /\ n * pageSize >= total
                /\ \A k \in 0..(n - 1) : k * pageSize < total

\* CalculatePagination(2, 10, 95) gave total_pages 10.
C1_Witness ==
    /\ Returned("CalculatePagination")
    /\ Last.args = <<2, 10, 95>>
    /\ Last.ret.v.TotalPages = 10

\* The page count the code gives for total over a page size ps >= 1, by the
\* arithmetic of the naturals: the ceiling for total >= 0; for total < 0 the
\* quotient of the magnitudes negated, plus one when there is a remainder.
C2_Pages(total, ps) ==
    IF total >= 0
    THEN (total + ps - 1) \div ps
    ELSE IF (-total) % ps = 0 THEN -((-total) \div ps)
         ELSE 1 - ((-total) \div ps)

\* C2: for every input, page and page_size are at least 1: page is the
\* input if >= 1 and else 1, page_size the input if >= 1 and else 20, total
\* is echoed and total_pages is counted with the clamped page_size.
C2_ClampedInputs ==
    Returned("CalculatePagination") =>
        LET page == Last.args[1]
            pageSize == Last.args[2]
            total == Last.args[3]
            p == Last.ret.v
        IN  /\ p.Page >= 1
            /\ p.PageSize >= 1
            /\ p.Page = (IF page >= 1 THEN page ELSE 1)
            /\ p.PageSize = (IF pageSize >= 1 THEN pageSize ELSE 20)
            /\ p.Total = total
            /\ p.TotalPages = C2_Pages(total, p.PageSize)

\* CalculatePagination(0, 0, 100) gave {1, 20, 100, 5}.
C2_Witness ==
    /\ Returned("CalculatePagination")
    /\ Last.args = <<0, 0, 100>>
    /\ Last.ret.v = [Page |-> 1, PageSize |-> 20, Total |-> 100,
                     TotalPages |-> 5]


\* The call the context received last.
LastWrite == ctx[Len(ctx)]

\* The last call was ErrorResponse on an error of the given kind.
Emitted(kind) ==
    /\ trace # <<>>
    /\ Last.op = "ErrorResponse"
    /\ Last.args[1].kind = kind

\* C3: ErrorResponse on a ResponseError e writes status e.StatusCode and a
\* body with success false, no data and an error object of exactly the keys
\* code, message and details, holding e.Code, e.Message and e.Details; the
\* details key is there when e has no details too.
C3_ResponseErrorEmitted ==
    (Emitted("ResponseError") /\ Last.args[1].ref # NilRef) =>
        LET e == heap[Last.args[1].ref]
        IN  /\ Last.ret.t = "void"
            /\ ctx # <<>>
            /\ LastWrite.call = "JSON"
            /\ LastWrite.code = e.StatusCode
            /\ LastWrite.obj.Success = FALSE
            /\ LastWrite.obj.Data = [t |-> "nil"]
            /\ LastWrite.obj.Error.t = "map"
            /\ DOMAIN LastWrite.obj.Error.v = {"code", "message", "details"}
            /\ LastWrite.obj.Error.v["code"] = e.Code
            /\ LastWrite.obj.Error.v["message"] = e.Message
            /\ LastWrite.obj.Error.v["details"] = e.Details

\* A ResponseError of status 409 and no details was emitted at 409, with
\* the details key in the error object.
C3_Witness ==
    /\ Emitted("ResponseError")
    /\ Last.args[1].ref # NilRef
    /\ heap[Last.args[1].ref].StatusCode = 409
    /\ DOMAIN heap[Last.args[1].ref].Details.kv = {}
    /\ ctx # <<>>
    /\ LastWrite.code = 409
    /\ "details" \in DOMAIN LastWrite.obj.Error.v

\* C4: ErrorResponse on an error that is no *ResponseError writes status 500
\* and a body with success false and the error object
\* {INTERNAL_SERVER_ERROR, "An unexpected error occurred", {error: text}},
\* text being the error's message.
C4_FallbackEmitted ==
    Emitted("plain") =>
        /\ Last.ret.t = "void"
        /\ ctx # <<>>
        /\ LastWrite.call = "JSON"
        /\ LastWrite.code = 500
        /\ LastWrite.obj.Success = FALSE
        /\ LastWrite.obj.Error.t = "map"
        /\ DOMAIN LastWrite.obj.Error.v = {"code", "message", "details"}
        /\ LastWrite.obj.Error.v["code"] = "INTERNAL_SERVER_ERROR"
        /\ LastWrite.obj.Error.v["message"] = "An unexpected error occurred"
        /\ LastWrite.obj.Error.v["details"].nil = FALSE
        /\ DOMAIN LastWrite.obj.Error.v["details"].kv = {"error"}
        /\ LastWrite.obj.Error.v["details"].kv["error"] = Last.args[1].msg

\* The error "boom" was emitted at 500 with details.error = "boom".
C4_Witness ==
    /\ Emitted("plain")
    /\ Last.args[1].msg = "boom"
    /\ ctx # <<>>
    /\ LastWrite.code = 500
    /\ LastWrite.obj.Error.v["details"].kv["error"] = "boom"

\* C5: ErrorResponse never panics: on a *ResponseError, on another error, on
\* the nil error and on a nil *ResponseError it returns, and the context has
\* received one response.
C5_ErrorResponseNeverPanics ==
    (trace # <<>> /\ Last.op = "ErrorResponse") =>
        /\ Last.ret.t # "panic"
        /\ ctx # <<>>
        /\ LastWrite.call = "JSON"


\* The table of the named factories: code and status.
C7_Table ==
    [BadRequest          |-> <<"BAD_REQUEST", 400>>,
     Unauthorized        |-> <<"UNAUTHORIZED", 401>>,
     UnauthorizedError   |-> <<"UNAUTHORIZED", 401>>,
     Forbidden           |-> <<"FORBIDDEN", 403>>,
     NotFound            |-> <<"NOT_FOUND", 404>>,
     Conflict            |-> <<"CONFLICT", 409>>,
     VersionExistsError  |-> <<"CONFLICT", 409>>,
     ValidationError     |-> <<"VALIDATION_ERROR", 400>>,
     InternalServerError |-> <<"INTERNAL_SERVER_ERROR", 500>>,
     DatabaseError       |-> <<"DATABASE_ERROR", 500>>,
     InvalidInput        |-> <<"INVALID_INPUT", 400>>,
     MissingHeader       |-> <<"MISSING_HEADER", 400>>,
     InvalidUUID         |-> <<"INVALID_UUID", 400>>,
     DuplicateEntry      |-> <<"DUPLICATE_ENTRY", 409>>,
     ForeignKeyViolation |-> <<"FOREIGN_KEY_VIOLATION", 400>>]

NamedFactories == DOMAIN C7_Table

\* The table's message of a factory called with args.
C7_Message(op, args) ==
    CASE op = "NotFound" -> args[1] \o " not found"
      [] op = "DatabaseError" -> "Database operation failed"
      [] op = "InvalidInput" ->
             "Invalid input for field '" \o args[1] \o "': " \o args[2]
      [] op = "MissingHeader" -> "Missing required header: " \o args[1]
      [] op = "InvalidUUID" ->
             "Invalid UUID format for field '" \o args[1] \o "'"
      [] op = "DuplicateEntry" -> args[1] \o " already exists"
      [] op = "VersionExistsError" ->
             "Version " \o args[1] \o " already exists"
      [] OTHER -> args[1]

\* C7: what a named factory returns has the code and the status of the
\* table whatever its arguments, the argument or the table's template as
\* message, and no details, but for DatabaseError(err), whose details are
\* exactly {error: err's message}.
C7_FactoryTable ==
    (trace # <<>> /\ Last.op \in NamedFactories /\ Last.ret.t = "ref") =>
        LET e == heap[Last.ret.v]
        IN  /\ e.Code = C7_Table[Last.op][1]
            /\ e.StatusCode = C7_Table[Last.op][2]
            /\ e.Message = C7_Message(Last.op, Last.args)
            /\ e.Details.nil = FALSE
            /\ IF Last.op = "DatabaseError"
               THEN /\ DOMAIN e.Details.kv = {"error"}
                    /\ e.Details.kv["error"] = Last.args[1].msg
               ELSE DOMAIN e.Details.kv = {}

\* NotFound("User") returned NOT_FOUND, 404, "User not found".
C7_Witness ==
    /\ Returned("NotFound")
    /\ Last.args = <<"User">>
    /\ heap[Last.ret.v].Code = "NOT_FOUND"
    /\ heap[Last.ret.v].StatusCode = 404
    /\ heap[Last.ret.v].Message = "User not found"

\* The status codes of a failure.
IsFailureStatus(code) == 400 <= code /\ code <= 599

\* C6 as stated: every response ErrorResponse writes has a 4xx or 5xx
\* status, the values of NewResponseError with a status of the caller's
\* choice included.
C6_AlwaysFailureStatus ==
    (trace # <<>> /\ Last.op = "ErrorResponse" /\ Last.ret.t = "void") =>
        /\ ctx # <<>>
        /\ IsFailureStatus(LastWrite.code)

\* C6, amended: every named factory returns a status in 400..599, and a
\* response ErrorResponse writes has a status in 400..599 unless the error
\* is a ResponseError whose own statusCode is outside 400..599, which is
\* then the status written.
C6_FailureStatusUnlessCustom ==
    /\ (trace # <<>> /\ Last.op \in NamedFactories /\ Last.ret.t = "ref") =>
           IsFailureStatus(heap[Last.ret.v].StatusCode)
    /\ (trace # <<>> /\ Last.op = "ErrorResponse" /\ Last.ret.t = "void") =>
           /\ ctx # <<>>
           /\ \/ IsFailureStatus(LastWrite.code)
              \/ /\ Last.args[1].kind = "ResponseError"
                 /\ ~IsFailureStatus(heap[Last.args[1].ref].StatusCode)
                 /\ LastWrite.code = heap[Last.args[1].ref].StatusCode

\* A named factory's value was emitted at its 4xx status and then a value
\* of NewResponseError at its status outside 400..599.
C6_Witness ==
    /\ Len(trace) = 4
    /\ trace[1].op \in NamedFactories
    /\ trace[2].op = "NewResponseError"
    /\ trace[3].op = "ErrorResponse" /\ trace[3].args[1] = [kind |-> "ResponseError", ref |-> 1]
    /\ trace[4].op = "ErrorResponse" /\ trace[4].args[1] = [kind |-> "ResponseError", ref |-> 2]
    /\ Len(ctx) = 2
    /\ IsFailureStatus(ctx[1].code)
    /\ ~IsFailureStatus(ctx[2].code)


\* The WithDetails calls on the value r that returned, as places of the trace.
DetailCalls(r) ==
    {i \in 1..Len(trace) : /\ trace[i].op = "WithDetails"
                           /\ trace[i].args[1] = r
                           /\ trace[i].ret.t = "ref"}

\* The call that made the value r.
Maker(r) ==
    trace[CHOOSE i \in 1..Len(trace) :
              trace[i].op # "WithDetails" /\ trace[i].ret = [t |-> "ref", v |-> r]]

\* The values made with a Details map.
Made == {r \in 1..Len(heap) : ~heap[r].Details.nil}

\* The greatest of a non-empty set of numbers.
Greatest(S) == CHOOSE i \in S : \A j \in S : j <= i

\* C8: after the WithDetails calls made on a value, details[k] is the value
\* of the last call with key k for every key passed, the keys never passed
\* are as the value was made with (none, but the error key of
\* DatabaseError), there is one entry for each distinct key, the code, the
\* message and the statusCode are as made, and every call returned its
\* receiver.
C8_LastWriteWins ==
    \A r \in Made :
        LET e == heap[r]
            m == Maker(r)
            passed == {trace[i].args[2] : i \in DetailCalls(r)}
            prior == IF m.op = "DatabaseError" THEN {"error"} ELSE {}
        IN  /\ \A i \in DetailCalls(r) : trace[i].ret.v = r
            /\ DOMAIN e.Details.kv = prior \cup passed
            /\ Cardinality(DOMAIN e.Details.kv) = Cardinality(prior \cup passed)
            /\ \A k \in passed :
                   e.Details.kv[k] =
                       trace[Greatest({i \in DetailCalls(r) :
                                          trace[i].args[2] = k})].args[3]
            /\ \A k \in prior \ passed : e.Details.kv[k] = m.args[1].msg
            /\ e.Code = (IF m.op \in NamedFactories
                         THEN C7_Table[m.op][1] ELSE m.args[1])
            /\ e.Message = (IF m.op \in NamedFactories
                            THEN C7_Message(m.op, m.args) ELSE m.args[2])
            /\ e.StatusCode = (IF m.op \in NamedFactories
                               THEN C7_Table[m.op][2] ELSE m.args[3])

\* WithDetails("a", "v1") and then WithDetails("a", "boom") on one value
\* left the one entry a = "boom".
C8_Witness ==
    \E r \in Made : \E i, j \in DetailCalls(r) :
        /\ i < j
        /\ trace[i].args = <<r, "a", "v1">>
        /\ trace[j].args = <<r, "a", "boom">>
        /\ DOMAIN heap[r].Details.kv = {"a"}
        /\ heap[r].Details.kv["a"] = "boom"

\* C10: the operations that build errors are total: WithDetails returns on
\* every ResponseError, one whose Details map was never made included, and
\* every named factory returns on every argument, DatabaseError(nil)
\* included.
C10_ConstructionIsTotal ==
    \A i \in 1..Len(trace) :
        /\ trace[i].op \in NamedFactories \cup {"NewResponseError"} =>
               trace[i].ret.t # "panic"
        /\ (trace[i].op = "WithDetails" /\ trace[i].args[1] # NilRef) =>
               trace[i].ret.t # "panic"


\* The body of a successful response.
C9_Body(data, message) ==
    [Success |-> TRUE, Data |-> data, Error |-> [t |-> "nil"],
     Message |-> message]

\* What the context is to receive from a call of an emitter of success.
C9_Expected(c) ==
    CASE c.op = "SuccessResponse" ->
             [call |-> "JSON", code |-> c.args[1],
              obj |-> C9_Body(c.args[2], c.args[3])]
      [] c.op = "OKResponse" ->
             [call |-> "JSON", code |-> 200,
              obj |-> C9_Body(c.args[1], c.args[2])]
      [] c.op = "CreatedResponse" ->
             [call |-> "JSON", code |-> 201,
              obj |-> C9_Body(c.args[1], c.args[2])]
      [] c.op = "UpdatedResponse" ->
             [call |-> "JSON", code |-> 202,
              obj |-> C9_Body(c.args[1], c.args[2])]
      [] c.op = "NoContentResponse" -> [call |-> "Status", code |-> 204]
      [] c.op = "ListResponseWithPagination" ->
             [call |-> "JSON", code |-> 200,
              obj |-> [Success |-> TRUE, Data |-> c.args[1],
                       Pagination |-> c.args[2]]]

SuccessEmitters ==
    {"SuccessResponse", "OKResponse", "CreatedResponse", "UpdatedResponse",
     "NoContentResponse", "ListResponseWithPagination"}

\* C9: each call of an emitter of success makes one call on the context
\* and no second one: the context has received as many calls as emitters
\* were called, the i-th from the i-th, with the status the emitter fixes
\* (the given one, 200, 201, 202; 204 and no body; 200 for every list and
\* every pagination) and the data, message and pagination it was given.
C9_OneWritePerEmitter ==
    (\A i \in 1..Len(trace) : trace[i].op \in SuccessEmitters) =>
        /\ Len(ctx) = Len(trace)
        /\ \A i \in 1..Len(trace) :
               /\ trace[i].ret.t = "void"
               /\ ctx[i] = C9_Expected(trace[i])

\* NoContentResponse set 204 with no body, and a list response of an empty
\* sequence and no pagination followed at 200 on the next context call.
C9_Witness ==
    /\ Len(trace) = 2
    /\ trace[1].op = "NoContentResponse"
    /\ trace[2].op = "ListResponseWithPagination"
    /\ trace[2].args = <<[t |-> "list", v |-> <<>>], [t |-> "nil"]>>
    /\ Len(ctx) = 2
    /\ ctx[1] = [call |-> "Status", code |-> 204]
    /\ ctx[2].call = "JSON"
    /\ ctx[2].code = 200


\* C11: for a negative total, total_pages is at most 0 and is the ceiling of
\* total / ps, ps being the clamped page size: floor(total / ps), plus one
\* when total mod ps is not 0 (\div and % are the floor and its remainder).
\* total = -5 over a page size of 10 is to give 0.
C11_NegativeTotalNeverPositive ==
    (Returned("CalculatePagination") /\ Last.args[3] < 0) =>
        LET total == Last.args[3]
            ps == IF Last.args[2] < 1 THEN 20 ELSE Last.args[2]
            n == Last.ret.v.TotalPages
        IN  /\ n <= 0
            /\ n = (total \div ps) + (IF total % ps # 0 THEN 1 ELSE 0)


\* The calls that make an error value.
Makers == NamedFactories \cup {"NewResponseError"}

\* One call of the library, as a step: the value at a pointer the handler
\* held before the call differs after it only when the call is WithDetails
\* on that pointer; what a constructor returns is a pointer the handler did
\* not hold before; ErrorResponse leaves every value as it was.
C12_Step ==
    (Len(trace') = Len(trace) + 1) =>
        LET c == trace'[Len(trace')]
        IN  /\ Len(heap') >= Len(heap)
            /\ \A r \in 1..Len(heap) :
                   heap'[r] # heap[r] =>
                       (c.op = "WithDetails" /\ c.args[1] = r)
            /\ (c.op \in Makers /\ c.ret.t = "ref") =>
                   /\ c.ret.v \notin 1..Len(heap)
                   /\ c.ret.v \in 1..Len(heap')
            /\ c.op = "ErrorResponse" => heap' = heap

\* C12: every constructor returns a newly allocated value, and ErrorResponse
\* never changes the value it is given: over any sequence of constructor,
\* WithDetails and ErrorResponse calls the code, message, statusCode and
\* details of a value change only by WithDetails calls on that value.
C12_OnlyOwnWithDetailsChanges == [][C12_Step]_vars

\* Two values were made, the first got a detail, the second was emitted with
\* none, and the first still holds its detail and the second none.
C12_Witness ==
    /\ Len(trace) = 4
    /\ trace[1].op \in Makers
    /\ trace[2].op \in Makers
    /\ trace[3].op = "WithDetails" /\ trace[3].args[1] = 1
    /\ trace[4].op = "ErrorResponse"
    /\ trace[4].args[1] = [kind |-> "ResponseError", ref |-> 2]
    /\ Len(heap) = 2
    /\ DOMAIN heap[1].Details.kv # {}
    /\ DOMAIN heap[2].Details.kv = {}
    /\ ctx # <<>>
    /\ LastWrite.obj.Error.v["details"] = heap[2].Details

=============================================================================
